---- MODULE Spec2Model ----
(***************************************************************************)
(* Model of the space-debris tracker's element-set cache                   *)
(* (backend/tle_fetcher.py): the on-disk cache of fetched TLE batches, the *)
(* freshness policy, the payload validator and the latest pointer.         *)
(*                                                                         *)
(* Text is a sequence of characters; a character is a one-letter string,   *)
(* with "LF" and "CR" for the two line-ending characters.                  *)
(***************************************************************************)
EXTENDS Integers, Sequences, FiniteSets, TLC

VARIABLES
    platform,     \* "posix" or "nt": decides os.linesep for text-mode writes
    now,          \* the wall clock, in ticks
    dirs,         \* the groups whose directory data/tle/<group> exists
    files,        \* the cache files: records [group, name, data, mtime, written],
                  \* data the characters on disk, written the text handed to write_text
    pointer,      \* data/latest_tle.txt
    calls,        \* number of fetch_tle calls made so far
    call,         \* the frame of the last fetch_tle call (its inputs and locals)
    ret,          \* what the last fetch_tle call returned or raised
    ptrStale,     \* a pointer write has failed since the pointer was last written
    vtext,        \* input of the validator run (specification SpecValidate)
    verdict,      \* result of the validator run
    cin,          \* arguments of the check_collisions run (specification SpecCollide)
    cout,         \* what the check_collisions run did and returned
    gin,          \* arguments of the time-grid builders (specification SpecGrid)
    gout,         \* the grid built last, and by which function
    pin,          \* arguments of a run of one of the other pipeline steps
    pout          \* what that run did and returned

vars == <<platform, now, dirs, files, pointer, calls, call, ret, ptrStale, vtext, verdict,
          cin, cout, gin, gout, pin, pout>>

----------------------------------------------------------------------------
(* Bounds of the model *)

TicksPerSec == 2

MaxCalls == 3

MaxLines == 6

(* Program constants *)

SecondsPerMinute == 60

TicksPerMin == SecondsPerMinute * TicksPerSec

\* the instants at which a call can happen: the start, a tick later within the
\* same second, exactly one minute on, and a tick past it
Times == {0, 1, TicksPerMin, TicksPerMin + 1}

Groups == {"active", "stations"}

CacheMinutesValues == {0, 1}

----------------------------------------------------------------------------
(* Text: characters, Python's str methods, text-mode file I/O *)

LF == "LF"

CR == "CR"

SP == " "

RECURSIVE SplitAcc(_, _, _)
SplitAcc(s, cur, out) ==
    IF s = <<>> THEN (IF cur = <<>> THEN out ELSE Append(out, cur))
    ELSE IF Head(s) = CR /\ Len(s) >= 2 /\ s[2] = LF
         THEN SplitAcc(SubSeq(s, 3, Len(s)), <<>>, Append(out, cur))
    ELSE IF Head(s) \in {CR, LF}
         THEN SplitAcc(Tail(s), <<>>, Append(out, cur))
    ELSE SplitAcc(Tail(s), Append(cur, Head(s)), out)

\* str.splitlines(): split at LF, CR and CRLF; no empty last line
SplitLines(s) == SplitAcc(s, <<>>, <<>>)

IsSpace(c) == c \in {SP, LF, CR}

RECURSIVE RStrip(_)
\* str.rstrip()
RStrip(s) ==
    IF s # <<>> /\ IsSpace(s[Len(s)]) THEN RStrip(SubSeq(s, 1, Len(s) - 1)) ELSE s

RECURSIVE LStrip(_)
LStrip(s) ==
    IF s # <<>> /\ IsSpace(Head(s)) THEN LStrip(Tail(s)) ELSE s

\* str.strip()
Strip(s) == LStrip(RStrip(s))

\* str.startswith(prefix)
StartsWith(s, prefix) ==
    Len(s) >= Len(prefix) /\ SubSeq(s, 1, Len(prefix)) = prefix

RECURSIVE SelectNonBlank(_)
SelectNonBlank(ls) ==
    IF ls = <<>> THEN <<>>
    ELSE IF Strip(Head(ls)) # <<>> THEN <<Head(ls)>> \o SelectNonBlank(Tail(ls))
    ELSE SelectNonBlank(Tail(ls))

RECURSIVE UniversalNewlines(_)
\* reading a text-mode file (newline=None): CRLF and CR become LF
UniversalNewlines(s) ==
    IF s = <<>> THEN <<>>
    ELSE IF Head(s) = CR /\ Len(s) >= 2 /\ s[2] = LF
         THEN <<LF>> \o UniversalNewlines(SubSeq(s, 3, Len(s)))
    ELSE IF Head(s) = CR THEN <<LF>> \o UniversalNewlines(Tail(s))
    ELSE <<Head(s)>> \o UniversalNewlines(Tail(s))

\* Path.read_text(encoding="utf-8", errors="ignore") of a file holding `data`
ReadText(data) == UniversalNewlines(data)

LineSep(p) == IF p = "nt" THEN <<CR, LF>> ELSE <<LF>>

RECURSIVE TranslateNewlines(_, _)
TranslateNewlines(s, sep) ==
    IF s = <<>> THEN <<>>
    ELSE IF Head(s) = LF THEN sep \o TranslateNewlines(Tail(s), sep)
    ELSE <<Head(s)>> \o TranslateNewlines(Tail(s), sep)

\* Path.write_text(text, encoding="utf-8"): what lands on disk (LF -> os.linesep)
WriteText(text, p) == TranslateNewlines(text, LineSep(p))

----------------------------------------------------------------------------
(* _validate_tle_text *)

\* lines = [ln.rstrip() for ln in text.splitlines() if ln.strip()]
ValidatorLines(text) ==
    LET kept == SelectNonBlank(SplitLines(text))
    IN  [i \in 1..Len(kept) |-> RStrip(kept[i])]

MarkerOne == <<"1", SP>>

MarkerTwo == <<"2", SP>>

\* variant: only the second element line is checked
TripletOkLineTwoOnly(lines, i) == StartsWith(lines[i + 2], MarkerTwo)

\* the check of one (name, l1, l2) triplet starting at 1-based index i
TripletOk(lines, i) ==
    StartsWith(lines[i + 1], MarkerOne) /\ StartsWith(lines[i + 2], MarkerTwo)

\* variant: a line count that is a multiple of 2 but not of 3 is read as
\* (l1, l2) pairs and accepted when every pair carries the markers
validate_triplets_or_pairs(text) ==
    LET lines == ValidatorLines(text)
        n == Len(lines)
    IN  IF n > 0 /\ n % 3 # 0 /\ n % 2 = 0
        THEN (IF \A k \in 0..(n \div 2 - 1) :
                    /\ StartsWith(lines[2 * k + 1], MarkerOne)
                    /\ StartsWith(lines[2 * k + 2], MarkerTwo)
              THEN "ok" ELSE "malformed")
        ELSE IF n < 3 \/ n % 3 # 0 THEN "not_multiple_of_3"
        ELSE IF \E k \in 0..(n \div 3 - 1) : ~TripletOk(lines, 3 * k + 1)
             THEN "malformed"
        ELSE "ok"

\* "ok", or the ValueError raised
validate_tle_text(text) ==
    LET lines == ValidatorLines(text)
    IN  IF Len(lines) < 3 \/ Len(lines) % 3 # 0 THEN "not_multiple_of_3"
        ELSE IF \E k \in 0..(Len(lines) \div 3 - 1) : ~TripletOk(lines, 3 * k + 1)
             THEN "malformed"
        ELSE "ok"

----------------------------------------------------------------------------
(* The cache directory *)

GroupFiles(fs, g) == { f \in fs : f.group = g }

Names(fs, g) == { f.name : f \in GroupFiles(fs, g) }

FileAt(fs, g, n) == CHOOSE f \in fs : f.group = g /\ f.name = n

Max(S) == CHOOSE x \in S : \A y \in S : y <= x

RECURSIVE SortedSeq(_)
SortedSeq(S) ==
    IF S = {} THEN <<>>
    ELSE LET m == Max(S) IN Append(SortedSeq(S \ {m}), m)

\* _list_cached: the group's *.tle files, sorted by name
list_cached(ds, fs, g) == IF g \notin ds THEN <<>> ELSE SortedSeq(Names(fs, g))

\* datetime.utcnow().strftime("%Y%m%d_%H%M%S"): the clock cut to whole seconds
Timestamp(t) == t \div TicksPerSec

\* variant: the window taken as timedelta(seconds=cache_minutes)
is_fresh_seconds(mtime, t, cm) == t - mtime <= cm * TicksPerSec

\* _is_fresh: age <= timedelta(minutes=cache_minutes)
is_fresh(mtime, t, cm) == t - mtime <= cm * TicksPerMin

\* resp.raise_for_status(): HTTPError for 4xx and 5xx
RaiseForStatus(status) == status >= 400 /\ status < 600

NoPointer == [kind |-> "absent", group |-> "", name |-> -1]

EmptyPointer == [kind |-> "empty", group |-> "", name |-> -1]

PointerTo(g, n) == [kind |-> "path", group |-> g, name |-> n]

\* variant: the except clause is missing, a failed write propagates
write_latest_pointer_raises(old, g, n, outcome) ==
    [raised  |-> outcome # "ok",
     pointer |-> IF outcome = "ok" THEN PointerTo(g, n)
                 ELSE IF outcome = "open_fail" THEN old
                 ELSE EmptyPointer]

\* variant: the pointer is opened with "x", an existing pointer is kept
write_latest_pointer_if_missing(old, g, n, outcome) ==
    [raised  |-> FALSE,
     pointer |-> IF outcome = "ok"
                 THEN (IF old.kind = "absent" THEN PointerTo(g, n) ELSE old)
                 ELSE IF outcome = "open_fail" THEN old
                 ELSE EmptyPointer]

\* _write_latest_pointer: open("w") truncates, write stores the path; any
\* exception is swallowed.  outcome: "ok", "open_fail" or "write_fail".
write_latest_pointer(old, g, n, outcome) ==
    [raised  |-> FALSE,
     pointer |-> IF outcome = "ok" THEN PointerTo(g, n)
                 ELSE IF outcome = "open_fail" THEN old
                 ELSE EmptyPointer]

----------------------------------------------------------------------------
(* Payloads the source can answer with *)

RECURSIVE Join(_, _)
\* every line followed by the terminator
Join(ls, sep) == IF ls = <<>> THEN <<>> ELSE Head(ls) \o sep \o Join(Tail(ls), sep)

NameLine == <<"A">>

LineOne == <<"1", SP, "A">>

LineTwo == <<"2", SP, "A">>

PayloadLF == Join(<<NameLine, LineOne, LineTwo>>, <<LF>>)

PayloadCRLF == Join(<<NameLine, LineOne, LineTwo>>, <<CR, LF>>)

PayloadSwapped == Join(<<NameLine, LineTwo, LineOne>>, <<LF>>)

Payloads == {PayloadLF, PayloadCRLF, PayloadSwapped}

\* what requests.get meets: no answer at all, or a response with a status and a body
NetOutcomes ==
    {[kind |-> "transport_error", status |-> 0, body |-> <<>>]}
    \cup {[kind |-> "response", status |-> 404, body |-> PayloadLF]}
    \cup {[kind |-> "response", status |-> 200, body |-> b] : b \in Payloads}

PointerOutcomes == {"ok", "open_fail", "write_fail"}

----------------------------------------------------------------------------
(* fetch_tle *)

\* the runs of the other functions have not happened
NoArgs == <<>>

NoRun == [status |-> "none"]

NoCall ==
    [group |-> "", cm |-> 0, cached |-> FALSE, latest |-> -1, age |-> 0,
     net |-> FALSE, before |-> 0, existed |-> FALSE, follows |-> FALSE, prevAge |-> 0,
     reply |-> "none", ptr |-> "none"]

NoRet == [status |-> "none", origin |-> "", group |-> "", name |-> -1, text |-> <<>>, error |-> ""]

Ok(origin, g, n, text) ==
    [status |-> "ok", origin |-> origin, group |-> g, name |-> n, text |-> text, error |-> ""]

Raised(err) ==
    [status |-> "error", origin |-> "", group |-> "", name |-> -1, text |-> <<>>, error |-> err]

\* the frame of a call: its inputs, the locals `cached`/`latest`, and what it met:
\* reply is "none" (no request), "transport", "http", "invalid" or "valid"
Frame(g, cm, netUsed, reply, ptr) ==
    LET cached == list_cached(dirs \cup {g}, files, g)
        latest == IF cached = <<>> THEN -1 ELSE cached[Len(cached)]
        follows == ret.status = "ok" /\ call.group = g /\ call.cm = cm
    IN  [group |-> g, cm |-> cm,
         cached |-> cached # <<>>,
         latest |-> latest,
         age |-> IF cached = <<>> THEN 0 ELSE now - FileAt(files, g, latest).mtime,
         net |-> netUsed,
         before |-> Cardinality(GroupFiles(files, g)),
         existed |-> Timestamp(now) \in Names(files, g),
         follows |-> follows,
         prevAge |-> IF follows THEN now - FileAt(files, g, ret.name).mtime ELSE 0,
         reply |-> reply,
         ptr |-> ptr]

\* lines 96-100: the newest file is fresh; read it and return
CacheHit(g, cm, latest) ==
    /\ ret' = Ok("cache", g, latest, ReadText(FileAt(files, g, latest).data))
    /\ call' = Frame(g, cm, FALSE, "none", "none")
    /\ UNCHANGED <<files, pointer, ptrStale>>

\* variant: a failed request falls back to the newest cached file, however old
NetworkFailureFallback(g, cm, err) ==
    LET cached == list_cached(dirs \cup {g}, files, g)
        latest == cached[Len(cached)]
    IN  /\ ret' = IF cached = <<>> THEN Raised(err)
                  ELSE Ok("cache", g, latest, ReadText(FileAt(files, g, latest).data))
        /\ call' = Frame(g, cm, TRUE, err, "none")
        /\ UNCHANGED <<files, pointer, ptrStale>>

\* lines 112-113: requests.get or raise_for_status raises; the call ends there
NetworkFailure(g, cm, err) ==
    /\ ret' = Raised(err)
    /\ call' = Frame(g, cm, TRUE, err, "none")
    /\ UNCHANGED <<files, pointer, ptrStale>>

\* variant: the payload is written before it is validated
ValidationFailureAfterWrite(g, cm, text, err) ==
    /\ ret' = Raised(err)
    /\ call' = Frame(g, cm, TRUE, "invalid", "none")
    /\ files' = { f \in files : ~(f.group = g /\ f.name = Timestamp(now)) }
                \cup {[group |-> g, name |-> Timestamp(now),
                       data |-> WriteText(text, platform), mtime |-> now,
                       written |-> text]}
    /\ UNCHANGED <<pointer, ptrStale>>

\* line 117: _validate_tle_text raises; the call ends there
ValidationFailure(g, cm, text, err) ==
    /\ ret' = Raised(err)
    /\ call' = Frame(g, cm, TRUE, "invalid", "none")
    /\ UNCHANGED <<files, pointer, ptrStale>>

\* lines 119-126: write <group>/<ts>.tle, update the pointer, return
Store(g, cm, text, pf) ==
    LET ts == Timestamp(now)
        w == write_latest_pointer(pointer, g, ts, pf)
    IN  /\ files' = { f \in files : ~(f.group = g /\ f.name = ts) }
                    \cup {[group |-> g, name |-> ts,
                           data |-> WriteText(text, platform), mtime |-> now,
                           written |-> text]}
        /\ pointer' = w.pointer
        /\ ptrStale' = (pf # "ok")
        /\ call' = Frame(g, cm, TRUE, "valid", pf)
        /\ ret' = IF w.raised THEN Raised("pointer") ELSE Ok("network", g, ts, text)

\* the environment's answers (the response, the outcome of the pointer write)
\* are drawn where the call consults them
fetch_tle(g, cm) ==
    /\ calls < MaxCalls
    /\ calls' = calls + 1
    /\ dirs' = dirs \cup {g}
    /\ UNCHANGED <<platform, now, vtext, verdict, cin, cout, gin, gout, pin, pout>>
    /\ LET cached == list_cached(dirs \cup {g}, files, g)
           latest == cached[Len(cached)]
       IN  IF cached # <<>> /\ is_fresh(FileAt(files, g, latest).mtime, now, cm)
           THEN CacheHit(g, cm, latest)
           ELSE \E net \in NetOutcomes :
                  IF net.kind = "transport_error"
                  THEN NetworkFailure(g, cm, "transport")
                  ELSE IF RaiseForStatus(net.status)
                  THEN NetworkFailure(g, cm, "http")
                  ELSE IF validate_tle_text(net.body) # "ok"
                  THEN ValidationFailure(g, cm, net.body, validate_tle_text(net.body))
                  ELSE \E pf \in PointerOutcomes : Store(g, cm, net.body, pf)

\* time passes between calls
Advance(t) ==
    /\ t > now
    /\ now' = t
    /\ UNCHANGED <<platform, dirs, files, pointer, calls, call, ret, ptrStale, vtext, verdict>>
    /\ UNCHANGED <<cin, cout, gin, gout, pin, pout>>

Init ==
    /\ platform \in {"posix", "nt"}
    /\ now = 0
    /\ dirs = {}
    /\ files = {}
    /\ pointer = NoPointer
    /\ calls = 0
    /\ call = NoCall
    /\ ret = NoRet
    /\ ptrStale = FALSE
    /\ vtext = <<>>
    /\ verdict = "none"
    /\ cin = NoArgs
    /\ cout = NoRun
    /\ gin = NoArgs
    /\ gout = NoRun
    /\ pin = NoArgs
    /\ pout = NoRun

Next ==
    \/ \E g \in Groups, cm \in CacheMinutesValues : fetch_tle(g, cm)
    \/ \E t \in Times : Advance(t)

Spec == Init /\ [][Next]_vars

----------------------------------------------------------------------------
(* The validator on its own: one run of _validate_tle_text on a bounded payload *)

BareMarkerOne == <<"1", SP>>

BlankLine == <<SP>>

LineKinds == {NameLine, LineOne, LineTwo, BareMarkerOne, BlankLine}

Terminators == {<<LF>>, <<CR, LF>>}

ValidatorInputs ==
    { Join(ls, sep) : ls \in UNION { [1..n -> LineKinds] : n \in 0..MaxLines },
                      sep \in Terminators }

InitValidate ==
    /\ vtext \in ValidatorInputs
    /\ verdict = "none"
    /\ platform = "posix"
    /\ now = 0
    /\ dirs = {}
    /\ files = {}
    /\ pointer = NoPointer
    /\ calls = 0
    /\ call = NoCall
    /\ ret = NoRet
    /\ ptrStale = FALSE
    /\ cin = NoArgs
    /\ cout = NoRun
    /\ gin = NoArgs
    /\ gout = NoRun
    /\ pin = NoArgs
    /\ pout = NoRun

Validate ==
    /\ verdict = "none"
    /\ verdict' = validate_tle_text(vtext)
    /\ UNCHANGED <<vtext, platform, now, dirs, files, pointer, calls, call, ret, ptrStale>>
    /\ UNCHANGED <<cin, cout, gin, gout, pin, pout>>

NextValidate == Validate

SpecValidate == InitValidate /\ [][NextValidate]_vars

----------------------------------------------------------------------------
(* Properties of fetch_tle, stated on the frame of the last call *)

Window == call.cm * TicksPerMin

\* the newest cached file of the group existed and was within the window
FreshAtCall == call.cached /\ call.age <= Window

ReturnedFile == FileAt(files, ret.group, ret.name)

\* C1: whenever the newest cached file of the group exists and its age is <=
\* cache_minutes (equality included), the call returns that file's path and the
\* text that was written to it, unchanged, and performs no network request.
C1_FreshHitReturnsWrittenText ==
    (calls > 0 /\ FreshAtCall) =>
        /\ ~call.net
        /\ ret.status = "ok" /\ ret.origin = "cache"
        /\ ret.group = call.group /\ ret.name = call.latest
        /\ ret.text = ReturnedFile.written

\* C2: with no cached file or a newest file older than the window, the call makes
\* a network request; and when the source answers with a valid payload, the call
\* persists it as a file that did not exist before, and returns that payload.
C2_MissFetchesAndStoresNewFile ==
    /\ (calls > 0 /\ ~FreshAtCall) => call.net
    /\ call.reply = "valid" =>
          /\ ret.status = "ok" /\ ret.origin = "network" /\ ret.group = call.group
          /\ \E f \in files : f.group = ret.group /\ f.name = ret.name /\ f.written = ret.text
          /\ ~call.existed
          /\ Cardinality(GroupFiles(files, call.group)) = call.before + 1

\* C3: a failed request (transport failure or an error status) makes the call
\* fail with that error; no content is returned, stale or not, cache or no cache.
C3_NetworkFailureIsTerminal ==
    call.reply \in {"transport", "http"} =>
        ret.status = "error" /\ ret.error = call.reply /\ ret.text = <<>>

C3_Witness ==
    /\ call.reply = "http" /\ call.cached /\ call.age > Window
    /\ ret.status = "error"

\* C4: a call that follows a successful call for the same group and window, made
\* while the entry that call returned is still within the window, leaves the
\* number of files of the group as it was.
C4_SecondFetchInWindowAddsNoFile ==
    (call.follows /\ call.prevAge <= Window) =>
        Cardinality(GroupFiles(files, call.group)) = call.before

C4_Witness ==
    /\ call.follows /\ call.prevAge = Window /\ call.cm = 1
    /\ ret.origin = "cache" /\ call.before = 1

\* C5: the content of a cache file, once written, is never changed or replaced by
\* a later fetch.
C5_EntriesImmutable ==
    [][\A f \in files :
          \E f2 \in files' : f2.group = f.group /\ f2.name = f.name /\ f2.data = f.data]_vars

\* C6: a fetch attempt that fails (request failure or rejected payload) creates,
\* changes and deletes no cache file in any group and leaves the pointer as it was.
C6_FailedFetchLeavesStateUntouched ==
    [][(calls' # calls /\ ret'.status = "error") => (files' = files /\ pointer' = pointer)]_vars

C6_Witness ==
    /\ ret.status = "error" /\ call.reply = "invalid"
    /\ files # {} /\ pointer.kind = "path"

\* C9: when the pointer write fails during a network fetch, the call still
\* succeeds: the new cache file is in place and its path and content are returned.
C9_PointerFailureDoesNotFailFetch ==
    call.ptr \in {"open_fail", "write_fail"} =>
        /\ ret.status = "ok" /\ ret.origin = "network" /\ ret.group = call.group
        /\ ret.name = Max(Names(files, call.group))
        /\ \E f \in files : f.group = ret.group /\ f.name = ret.name /\ f.written = ret.text

C9_Witness ==
    call.ptr = "write_fail" /\ ret.status = "ok" /\ pointer = EmptyPointer

PointsToNewest ==
    /\ pointer.kind = "path"
    /\ Names(files, pointer.group) # {}
    /\ pointer.name = Max(Names(files, pointer.group))

----------------------------------------------------------------------------
(* Properties of the validator, stated on the payload's own lines *)

HasInk(l) == \E i \in 1..Len(l) : ~IsSpace(l[i])

\* the payload's non-blank lines, as delivered
NonBlank(text) == SelectSeq(SplitLines(text), HasInk)

\* the line starts with the marker "<digit> "
Starts(l, digit) == Len(l) >= 2 /\ l[1] = digit /\ l[2] = SP

\* the line starts with the marker and element data follows it
Carries(l, digit) == Starts(l, digit) /\ \E i \in 3..Len(l) : ~IsSpace(l[i])

\* name + two element lines per object, every element line carrying its marker
TripletsMarked(ls) ==
    /\ Len(ls) > 0 /\ Len(ls) % 3 = 0
    /\ \A k \in 0..(Len(ls) \div 3 - 1) :
          Carries(ls[3 * k + 2], "1") /\ Carries(ls[3 * k + 3], "2")

\* legacy layout: two element lines per object, every line carrying its marker
PairsMarked(ls) ==
    /\ Len(ls) > 0 /\ Len(ls) % 2 = 0
    /\ \A k \in 0..(Len(ls) \div 2 - 1) :
          Carries(ls[2 * k + 1], "1") /\ Carries(ls[2 * k + 2], "2")

SomeTripletUnmarked(ls) ==
    /\ Len(ls) % 3 = 0
    /\ \E k \in 0..(Len(ls) \div 3 - 1) :
          ~Starts(ls[3 * k + 2], "1") \/ ~Starts(ls[3 * k + 3], "2")

SomePairUnmarked(ls) ==
    /\ Len(ls) % 3 # 0 /\ Len(ls) % 2 = 0
    /\ \E k \in 0..(Len(ls) \div 2 - 1) :
          ~Starts(ls[2 * k + 1], "1") \/ ~Starts(ls[2 * k + 2], "2")

\* C8: a payload whose non-blank line count is divisible by neither 2 nor 3 is
\* rejected, and so is a payload in which some object's first element line does
\* not start with "1 " or second element line does not start with "2 ".
C8_RejectsMalformed ==
    verdict # "none" =>
        LET ls == NonBlank(vtext)
        IN  (\/ (Len(ls) % 2 # 0 /\ Len(ls) % 3 # 0)
             \/ SomeTripletUnmarked(ls)
             \/ SomePairUnmarked(ls)) => verdict # "ok"

C8_Witness ==
    /\ verdict = "malformed"
    /\ Len(NonBlank(vtext)) = 3
    /\ Starts(NonBlank(vtext)[2], "2")

----------------------------------------------------------------------------
(* The close-approach screener (backend/collision_checker.py).              *)
(*                                                                         *)
(* An instant is a whole number of seconds on the UTC scale; a span handed *)
(* to the time library is a rational number of days, [num, den]. A distance *)
(* is carried as its square, which is exact on integer positions and keeps *)
(* the order of the distances. A confidence is a percentage.               *)

SECONDS_PER_DAY == 86400

MaxSats == 3

\* Python's None, the default of the getattr calls
None == "None"

Days(num, den) == [num |-> num, den |-> den]

\* Time + float: the time library reads the number as days
AddDays(t, span) == t + (span.num * SECONDS_PER_DAY) \div span.den

\* i * span
Scaled(i, span) == Days(i * span.num, span.den)

Max2(a, b) == IF a >= b THEN a ELSE b

Min2(a, b) == IF a <= b THEN a ELSE b

step_days_unconverted(step_seconds) == Days(step_seconds, 1)

\* step_days = step_seconds / 86400.0
step_days(step_seconds) == Days(step_seconds, SECONDS_PER_DAY)

\* n_steps = max(1, (minutes * 60) // step_seconds)
n_steps(minutes, step_seconds) == Max2(1, (minutes * 60) \div step_seconds)

\* time_steps = [t0 + i * step_days for i in range(n_steps)]
time_steps(t0, minutes, step_seconds) ==
    [k \in 1..n_steps(minutes, step_seconds) |->
        AddDays(t0, Scaled(k - 1, step_days(step_seconds)))]

\* getattr(sat, attr, default)
getattr(sat, attr, default) == IF attr \in sat.has THEN sat[attr] ELSE default

ml_ok_floor_inclusive(sat, include_types, min_confidence) ==
    /\ include_types # {} => getattr(sat, "pred_type", None) \in include_types
    /\ min_confidence > 0 =>
          ~(getattr(sat, "pred_conf", 100) <= min_confidence)

\* _ml_ok
ml_ok(sat, include_types, min_confidence) ==
    /\ include_types # {} => getattr(sat, "pred_type", None) \in include_types
    /\ min_confidence > 0 =>
          ~(getattr(sat, "pred_conf", 100) < min_confidence)

\* the propagation library: the position of an object some seconds after the
\* start of the run, along each of the orbits of the catalogue
OrbitAt(orbit, off) ==
    CASE orbit = "A" -> <<0, 0, 0>>
      [] orbit = "B" -> IF off < 20 THEN <<100, 0, 0>>
                        ELSE IF off < 40 THEN <<4, 0, 0>> ELSE <<50, 0, 0>>
      [] orbit = "C" -> <<10, 0, 0>>
      [] orbit = "D" -> IF off < 20 THEN <<0, 3, 4>>
                        ELSE IF off < 40 THEN <<0, 4, 3>> ELSE <<0, 0, 9>>

\* sat.at(t) raises
at_raises(sat, t, t0) == sat.failAt = t - t0

\* sat.at(t).position.km
at(sat, t, t0) == OrbitAt(sat.orbit, t - t0)

sample_track_padded(sat, times, t0) ==
    [raised |-> FALSE,
     track |-> [k \in 1..Len(times) |->
                  IF at_raises(sat, times[k], t0) THEN <<0, 0, 0>>
                  ELSE at(sat, times[k], t0)],
     calls |-> Len(times)]

sample_track_partial(sat, times, t0) ==
    LET bad == {k \in 1..Len(times) : at_raises(sat, times[k], t0)}
        n == IF bad = {} THEN Len(times) ELSE (CHOOSE k \in bad : \A m \in bad : k <= m) - 1
    IN  [raised |-> FALSE,
         track |-> [k \in 1..n |-> at(sat, times[k], t0)],
         calls |-> Min2(n + 1, Len(times))]

\* track = [np.array(sat.at(t).position.km) for t in time_steps] inside the
\* try: the provider is asked grid time by grid time until it raises, and a
\* raise leaves no track
sample_track(sat, times, t0) ==
    LET bad == {k \in 1..Len(times) : at_raises(sat, times[k], t0)}
    IN  IF bad = {}
        THEN [raised |-> FALSE,
              track |-> [k \in 1..Len(times) |-> at(sat, times[k], t0)],
              calls |-> Len(times)]
        ELSE [raised |-> TRUE,
              track |-> <<>>,
              calls |-> CHOOSE k \in bad : \A m \in bad : k <= m]

\* the members of a set of list positions, in list order
RECURSIVE InOrder(_)
InOrder(S) ==
    IF S = {} THEN <<>>
    ELSE LET m == Max(S) IN Append(InOrder(S \ {m}), m)

Probes(in, times, S) ==
    { <<i, k>> : i \in S, k \in 1..Len(times) } \cap
    { p \in (1..Len(in.satellites)) \X (1..Len(times)) :
        p[2] <= sample_track(in.satellites[p[1]], times, in.t0).calls }

Entries(in, times, kept) ==
    [n \in 1..Len(kept) |->
        [idx |-> kept[n],
         sat |-> in.satellites[kept[n]],
         track |-> sample_track(in.satellites[kept[n]], times, in.t0).track]]

collect_break(in, times) ==
    LET all == 1..Len(in.satellites)
        passed == {i \in all : ml_ok(in.satellites[i], in.include_types, in.min_confidence)}
        failed == {i \in passed : sample_track(in.satellites[i], times, in.t0).raised}
        seen == {i \in passed : \A f \in failed : i <= f}
    IN  [usable |-> Entries(in, times, InOrder(seen \ failed)),
         probes |-> Probes(in, times, seen)]

collect_sample_first(in, times) ==
    LET all == 1..Len(in.satellites)
        passed == {i \in all : ml_ok(in.satellites[i], in.include_types, in.min_confidence)}
        good == {i \in passed : ~sample_track(in.satellites[i], times, in.t0).raised}
    IN  [usable |-> Entries(in, times, InOrder(good)),
         probes |-> Probes(in, times, all)]

\* the loop over the satellites: an object the filter excludes is skipped
\* before it is sampled, an object whose sampling raises is skipped whole,
\* and the others are kept with their tracks, in list order
collect(in, times) ==
    LET all == 1..Len(in.satellites)
        passed == {i \in all : ml_ok(in.satellites[i], in.include_types, in.min_confidence)}
        good == {i \in passed : ~sample_track(in.satellites[i], times, in.t0).raised}
    IN  [usable |-> Entries(in, times, InOrder(good)),
         probes |-> Probes(in, times, passed)]

ManhattanDistance(pos1, pos2) ==
    LET abs(x) == IF x < 0 THEN -x ELSE x
        s == abs(pos1[1] - pos2[1]) + abs(pos1[2] - pos2[2]) + abs(pos1[3] - pos2[3])
    IN  s * s

\* np.linalg.norm(pos1 - pos2), squared
calculate_distance_km(pos1, pos2) ==
    (pos1[1] - pos2[1]) * (pos1[1] - pos2[1])
    + (pos1[2] - pos2[2]) * (pos1[2] - pos2[2])
    + (pos1[3] - pos2[3]) * (pos1[3] - pos2[3])

\* float("inf"), and a finite distance
Inf == [inf |-> TRUE, sq |-> 0]

Km(sq) == [inf |-> FALSE, sq |-> sq]

CloserOrEqual(d, dmin) == dmin.inf \/ d.sq <= dmin.sq

\* d < dmin
Closer(d, dmin) == dmin.inf \/ d.sq < dmin.sq

\* the scan of one pair: for i, (p1, p2) in enumerate(zip(track1, track2))
RECURSIVE scan(_, _, _, _, _)
scan(track1, track2, i, dmin, imin) ==
    IF i >= Min2(Len(track1), Len(track2))
    THEN [dmin |-> dmin, imin |-> imin]
    ELSE LET d == Km(calculate_distance_km(track1[i + 1], track2[i + 1]))
         IN  IF Closer(d, dmin)
             THEN scan(track1, track2, i + 1, d, i)
             ELSE scan(track1, track2, i + 1, dmin, imin)

alert_due_at_threshold(dmin, imin, threshold_km) ==
    /\ ~dmin.inf
    /\ threshold_km >= 0
    /\ dmin.sq <= threshold_km * threshold_km
    /\ imin >= 0

\* dmin < threshold_km and imin >= 0
alert_due(dmin, imin, threshold_km) ==
    /\ ~dmin.inf
    /\ threshold_km > 0
    /\ dmin.sq < threshold_km * threshold_km
    /\ imin >= 0

\* (a, b) comes before (c, d): by first position, then by second
Lexico(q, p) == q[1] < p[1] \/ (q[1] = p[1] /\ q[2] < p[2])

combinations_reversed(n) ==
    LET P == {p \in (1..n) \X (1..n) : p[1] < p[2]}
    IN  [k \in 1..Cardinality(P) |->
            CHOOSE p \in P : Cardinality({q \in P : Lexico(p, q)}) = k - 1]

\* itertools.combinations(usable, 2), as positions in usable
combinations(n) ==
    LET P == {p \in (1..n) \X (1..n) : p[1] < p[2]}
    IN  [k \in 1..Cardinality(P) |->
            CHOOSE p \in P : Cardinality({q \in P : Lexico(q, p)}) = k - 1]

\* utc_strftime("%H:%M:%S"): the time of day
utc_strftime(t) == t % SECONDS_PER_DAY

\* f"{c:.0%}"
Percent(c) == <<ToString(c), "%">>

label_always_decorated(sat) ==
    <<getattr(sat, "name", "UNKNOWN"), "[", getattr(sat, "pred_type", None)>>
    \o (IF "pred_conf" \in sat.has THEN Percent(sat.pred_conf) ELSE <<None>>)
    \o <<"]">>

\* label(sat, t, c), on t and c read with a default of None: the words of the
\* name as it is printed, with the annotations that are present
label(sat) ==
    LET base == getattr(sat, "name", "UNKNOWN")
        t == getattr(sat, "pred_type", None)
    IN  IF t # None /\ "pred_conf" \in sat.has
        THEN <<base, "[", t>> \o Percent(sat.pred_conf) \o <<"]">>
        ELSE IF t # None THEN <<base, "[", t, "]">>
        ELSE <<base>>

\* the loop over the pairs
pair_alerts(usable, times, threshold_km) ==
    LET pairs == combinations(Len(usable))
        found == [k \in 1..Len(pairs) |->
                    LET e1 == usable[pairs[k][1]]
                        e2 == usable[pairs[k][2]]
                        m == scan(e1.track, e2.track, 0, Inf, -1)
                    IN  [i |-> e1.idx, j |-> e2.idx,
                         name1 |-> label(e1.sat), name2 |-> label(e2.sat),
                         dmin |-> m.dmin, imin |-> m.imin,
                         due |-> alert_due(m.dmin, m.imin, threshold_km)]]
        due == SelectSeq(found, LAMBDA f : f.due)
    IN  [k \in 1..Len(due) |->
            [i |-> due[k].i, j |-> due[k].j,
             name1 |-> due[k].name1, name2 |-> due[k].name2,
             dmin |-> due[k].dmin.sq, imin |-> due[k].imin,
             t_alert |-> utc_strftime(times[due[k].imin + 1])]]

\* the whole call
CheckCollisions(in) ==
    LET times == time_steps(in.t0, in.minutes, in.step_seconds)
        c == collect(in, times)
    IN  [status |-> "returned",
         time_steps |-> times,
         probes |-> c.probes,
         usable |-> [n \in 1..Len(c.usable) |-> c.usable[n].idx],
         alerts |-> IF Len(c.usable) < 2 THEN <<>>
                    ELSE pair_alerts(c.usable, times, in.threshold_km)]

(* The inputs of the run *)

Object(name, orbit, has, t, c, off) ==
    [name |-> name, orbit |-> orbit, has |-> has \cup {"name"},
     pred_type |-> t, pred_conf |-> c, failAt |-> off]

Plain(name, orbit) == Object(name, orbit, {}, None, 0, -1)

Annotated(name, orbit, t, c) == Object(name, orbit, {"pred_type", "pred_conf"}, t, c, -1)

Failing(name, orbit, off) == Object(name, orbit, {}, None, 0, off)

SatKinds ==
    { Plain("A", "A"), Plain("B", "B"), Plain("C", "C"), Plain("D", "D"),
      Annotated("A", "A", "Debris", 90), Annotated("B", "B", "Unknown", 0),
      Annotated("D", "D", "Payload", 40),
      Failing("B", "B", 0), Failing("D", "D", 20), Failing("C", "C", 40) }

SatLists == UNION { [1..n -> SatKinds] : n \in 0..MaxSats }

Thresholds == {5, 10}

\* (minutes, step_seconds): three, two and one grid times
Grids == { <<1, 20>>, <<1, 30>>, <<1, 90>> }

TypeFilters == { {}, {"Debris", "Unknown"} }

ConfidenceFloors == {0, 50}

\* ts.now(): ten seconds before midnight
StartTimes == {86390}

InitCollide ==
    /\ \E s \in SatLists, th \in Thresholds, g \in Grids, ty \in TypeFilters,
          mc \in ConfidenceFloors, t0 \in StartTimes :
          cin = [satellites |-> s, threshold_km |-> th, minutes |-> g[1],
                 step_seconds |-> g[2], include_types |-> ty,
                 min_confidence |-> mc, t0 |-> t0]
    /\ cout = NoRun
    /\ gin = NoArgs
    /\ gout = NoRun
    /\ pin = NoArgs
    /\ pout = NoRun
    /\ vtext = <<>>
    /\ verdict = "none"
    /\ platform = "posix"
    /\ now = 0
    /\ dirs = {}
    /\ files = {}
    /\ pointer = NoPointer
    /\ calls = 0
    /\ call = NoCall
    /\ ret = NoRet
    /\ ptrStale = FALSE

check_collisions ==
    /\ cout.status = "none"
    /\ cout' = CheckCollisions(cin)
    /\ UNCHANGED <<cin, gin, gout, pin, pout, vtext, verdict>>
    /\ UNCHANGED <<platform, now, dirs, files, pointer, calls, call, ret, ptrStale>>

NextCollide == check_collisions

SpecCollide == InitCollide /\ [][NextCollide]_vars

----------------------------------------------------------------------------
(* Properties of check_collisions, stated on what the provider answers *)

Done == cout.status = "returned"

Sats == 1..Len(cin.satellites)

\* grid indices, counted from 0 as the code counts them
GridIdx == 0..(Len(cout.time_steps) - 1)

GridTime(k) == cout.time_steps[k + 1]

PosAt(i, k) == at(cin.satellites[i], GridTime(k), cin.t0)

Sq(x) == x * x

\* squared Euclidean distance of objects i and j at grid index k
DistSq(i, j, k) ==
    Sq(PosAt(i, k)[1] - PosAt(j, k)[1]) + Sq(PosAt(i, k)[2] - PosAt(j, k)[2])
    + Sq(PosAt(i, k)[3] - PosAt(j, k)[3])

MinDistSq(i, j) ==
    CHOOSE m \in { DistSq(i, j, k) : k \in GridIdx } :
        \A k \in GridIdx : m <= DistSq(i, j, k)

ArgMins(i, j) == { k \in GridIdx : DistSq(i, j, k) = MinDistSq(i, j) }

Alerts == { cout.alerts[n] : n \in 1..Len(cout.alerts) }

\* the filter excludes object i: its type is outside a given allow-set, or
\* its confidence is below a positive floor
Excluded(i) ==
    LET s == cin.satellites[i]
    IN  \/ /\ cin.include_types # {}
           /\ ("pred_type" \notin s.has \/ s.pred_type \notin cin.include_types)
        \/ /\ cin.min_confidence > 0
           /\ "pred_conf" \in s.has
           /\ s.pred_conf < cin.min_confidence

\* the provider raises for object i at some time of the grid
FailsOnGrid(i) == \E k \in GridIdx : cin.satellites[i].failAt = GridTime(k) - cin.t0

Survivors == { i \in Sats : ~Excluded(i) /\ ~FailsOnGrid(i) }

\* C11: when several grid indices attain a pair's minimum distance, the event
\* reported for the pair carries the smallest of them
C11_TieGoesToFirstIndex ==
    Done => \A e \in Alerts : \A k \in ArgMins(e.i, e.j) : e.imin <= k

C11_Witness ==
    /\ Done
    /\ \E e \in Alerts :
          /\ Cardinality(ArgMins(e.i, e.j)) >= 2
          /\ ArgMins(e.i, e.j) # GridIdx
          /\ e.imin \in ArgMins(e.i, e.j)

\* C12: a pair of usable objects gets an event if and only if its minimum
\* distance over the grid is strictly below the threshold
C12_EventIffStrictlyBelowThreshold ==
    Done => \A i \in Survivors, j \in Survivors :
              i < j => ( (\E e \in Alerts : e.i = i /\ e.j = j)
                         <=> MinDistSq(i, j) < Sq(cin.threshold_km) )

C12_Witness ==
    /\ Done
    /\ \E i \in Survivors, j \in Survivors :
          /\ i < j
          /\ MinDistSq(i, j) = Sq(cin.threshold_km)
          /\ ~\E e \in Alerts : e.i = i /\ e.j = j
    /\ \E e \in Alerts : MinDistSq(e.i, e.j) = Sq(cin.threshold_km) - 9

\* the objects and parameters of the scenario: A at the origin, B at
\* 100, 4 and 50 km along x, three grid times, threshold 10, no filter
Scenario ==
    /\ cin.satellites = <<Plain("A", "A"), Plain("B", "B")>>
    /\ cin.threshold_km = 10
    /\ cin.include_types = {}
    /\ cin.min_confidence = 0
    /\ Len(cout.time_steps) = 3

\* C13: a pair has at most one event; the event's distance is the minimum of
\* the Euclidean distances over the grid and its time is the grid time at an
\* index attaining it; the scenario gives one event, distance 4, index 1
C13_OneEventAtTheMinimum ==
    Done =>
      /\ \A n \in 1..Len(cout.alerts), m \in 1..Len(cout.alerts) :
            (cout.alerts[n].i = cout.alerts[m].i /\ cout.alerts[n].j = cout.alerts[m].j)
            => n = m
      /\ \A e \in Alerts :
            /\ e.i \in Survivors /\ e.j \in Survivors /\ e.i # e.j
            /\ e.dmin = MinDistSq(e.i, e.j)
            /\ e.imin \in ArgMins(e.i, e.j)
            /\ e.t_alert = GridTime(e.imin) % SECONDS_PER_DAY
      /\ Scenario =>
            /\ Len(cout.alerts) = 1
            /\ cout.alerts[1].dmin = Sq(4)
            /\ cout.alerts[1].imin = 1

C13_Witness ==
    /\ Done
    /\ Scenario
    /\ cout.alerts # <<>>
    /\ cout.alerts[1].t_alert = 10

Usable == { cout.usable[n] : n \in 1..Len(cout.usable) }

\* C14: with fewer than two objects left after filtering and sampling the
\* call returns, and returns no event
C14_FewerThanTwoUsableGivesNothing ==
    (cout.status # "none" /\ Cardinality(Survivors) < 2)
        => (cout.status = "returned" /\ cout.alerts = <<>>)

C14_Witness ==
    /\ Done
    /\ Len(cin.satellites) = MaxSats
    /\ Cardinality(Survivors) = 1
    /\ \E i \in Sats : Excluded(i)
    /\ \E i \in Sats : ~Excluded(i) /\ FailsOnGrid(i)
    /\ cout.alerts = <<>>

\* C15: an object for which the provider raises at a grid time is dropped
\* whole: it is not among the usable objects, no event names it, and the call
\* returns
C15_FailingObjectDroppedWhole ==
    cout.status # "none" =>
      /\ cout.status = "returned"
      /\ \A i \in Sats :
            (~Excluded(i) /\ FailsOnGrid(i)) =>
               /\ i \notin Usable
               /\ \A e \in Alerts : e.i # i /\ e.j # i

C15_Witness ==
    /\ Done
    /\ cout.alerts # <<>>
    /\ \E i \in Sats :
          /\ ~Excluded(i)
          /\ FailsOnGrid(i)
          /\ <<i, 2>> \in cout.probes
          /\ i \notin Usable

\* the input list without the objects at the positions F
Without(F) ==
    LET rest == InOrder(Sats \ F)
    IN  [n \in 1..Len(rest) |-> cin.satellites[rest[n]]]

\* what an event says, apart from the list positions of its two objects
Messages(alerts) ==
    [n \in 1..Len(alerts) |->
        [name1 |-> alerts[n].name1, name2 |-> alerts[n].name2,
         dmin |-> alerts[n].dmin, imin |-> alerts[n].imin,
         t_alert |-> alerts[n].t_alert]]

\* C16: the events of a run are those of the run on the list without any
\* set of the objects whose sampling fails
C16_SameEventsWithoutFailingObjects ==
    Done => \A F \in SUBSET { i \in Sats : FailsOnGrid(i) } :
              Messages(CheckCollisions([cin EXCEPT !.satellites = Without(F)]).alerts)
              = Messages(cout.alerts)

C16_Witness ==
    /\ Done
    /\ \E e \in Alerts : \E i \in Sats :
          /\ e.i < i /\ i < e.j
          /\ ~Excluded(i)
          /\ FailsOnGrid(i)

\* C17: the provider is never asked for an object that the filter excludes
C17_ExcludedObjectsNeverSampled ==
    Done => \A i \in Sats : Excluded(i) => \A p \in cout.probes : p[1] # i

C17_Witness ==
    /\ Done
    /\ \E i \in Sats, j \in Sats, p \in cout.probes :
          /\ "pred_type" \in cin.satellites[i].has
          /\ cin.include_types # {}
          /\ cin.satellites[i].pred_type \notin cin.include_types
          /\ cin.satellites[j].pred_type \in cin.include_types
          /\ cin.satellites[j].pred_conf < cin.min_confidence
          /\ p[1] \notin {i, j}

\* C18: with "Unknown" allowed, an object without annotations passes the
\* type filter as an object annotated "Unknown" does, and is kept
C18_AbsentAnnotationIsUnknown ==
    Done => \A i \in Sats :
              ( /\ cin.satellites[i].has \cap {"pred_type", "pred_conf"} = {}
                /\ "Unknown" \in cin.include_types
                /\ ~FailsOnGrid(i) )
              => i \in Usable

\* C19: the events come in the order of pair enumeration over the input
\* list: by first object, then by second
C19_EventsInPairOrder ==
    Done =>
      /\ \A e \in Alerts : e.i < e.j
      /\ \A n \in 1..Len(cout.alerts), m \in 1..Len(cout.alerts) :
            n < m => \/ cout.alerts[n].i < cout.alerts[m].i
                     \/ /\ cout.alerts[n].i = cout.alerts[m].i
                        /\ cout.alerts[n].j < cout.alerts[m].j

C19_Witness ==
    /\ Done
    /\ Len(cout.alerts) >= 3
    /\ cout.alerts[1].i = cout.alerts[2].i
    /\ cout.alerts[2].i < cout.alerts[3].i

----------------------------------------------------------------------------
(* The time grids: the three places that build a list of sample times from *)
(* a start and a step (collision_checker.check_collisions,                  *)
(* orbit_plotter.plot_satellite_orbits_3d, visualizer.plot_animated_positions) *)

\* n_steps = max(2, (minutes * 60) // max(1, int(step_seconds)))
plot_n_steps(minutes, step_seconds) ==
    Max2(2, (minutes * 60) \div Max2(1, step_seconds))

\* time_steps = [t0 + (i * step_seconds) / SECONDS_PER_DAY for i in range(n_steps)]
plot_time_steps(t0, minutes, step_seconds) ==
    [k \in 1..plot_n_steps(minutes, step_seconds) |->
        AddDays(t0, Days((k - 1) * step_seconds, SECONDS_PER_DAY))]

\* step_days = 1 / 86400; time_steps = [t0 + i * step_days for i in range(steps)]
frame_time_steps(t0, steps) ==
    [k \in 1..steps |-> AddDays(t0, Scaled(k - 1, Days(1, SECONDS_PER_DAY)))]

Built(by, times) == [status |-> "built", by |-> by, times |-> times]

GridStarts == {0, 86390}

GridMinutes == {1, 2, 30}

GridSteps == {1, 20, 30, 60, 90}

GridFrames == {1, 2, 120}

InitGrid ==
    /\ \E t0 \in GridStarts, mi \in GridMinutes, st \in GridSteps, fr \in GridFrames :
          gin = [t0 |-> t0, minutes |-> mi, step_seconds |-> st, steps |-> fr]
    /\ gout = NoRun
    /\ pin = NoArgs
    /\ pout = NoRun
    /\ cin = NoArgs
    /\ cout = NoRun
    /\ vtext = <<>>
    /\ verdict = "none"
    /\ platform = "posix"
    /\ now = 0
    /\ dirs = {}
    /\ files = {}
    /\ pointer = NoPointer
    /\ calls = 0
    /\ call = NoCall
    /\ ret = NoRet
    /\ ptrStale = FALSE

GridUnchanged ==
    /\ UNCHANGED <<gin, cin, cout, pin, pout, vtext, verdict>>
    /\ UNCHANGED <<platform, now, dirs, files, pointer, calls, call, ret, ptrStale>>

\* the grid of check_collisions
check_collisions_grid ==
    /\ gout.status = "none"
    /\ gout' = Built("check_collisions", time_steps(gin.t0, gin.minutes, gin.step_seconds))
    /\ GridUnchanged

\* the grid of plot_satellite_orbits_3d
plot_satellite_orbits_3d ==
    /\ gout.status = "none"
    /\ gout' = Built("plot_satellite_orbits_3d",
                     plot_time_steps(gin.t0, gin.minutes, gin.step_seconds))
    /\ GridUnchanged

\* the grid of plot_animated_positions
plot_animated_positions ==
    /\ gout.status = "none"
    /\ gout' = Built("plot_animated_positions", frame_time_steps(gin.t0, gin.steps))
    /\ GridUnchanged

NextGrid ==
    \/ check_collisions_grid
    \/ plot_satellite_orbits_3d
    \/ plot_animated_positions

SpecGrid == InitGrid /\ [][NextGrid]_vars

\* the step of the grid built, in seconds: the animation steps by one second
StepSeconds == IF gout.by = "plot_animated_positions" THEN 1 ELSE gin.step_seconds

----------------------------------------------------------------------------
(* check_collisions on annotated objects: every combination of a present or *)
(* absent type and confidence, against the type filter and the floor        *)

Combos == SUBSET {"pred_type", "pred_conf"}

AnnotatedKinds ==
    { Object("A", "A", h, IF "pred_type" \in h THEN "Debris" ELSE None, c, -1) :
        h \in Combos, c \in {0, 50, 100} }
    \cup
    { Object("B", "B", h, IF "pred_type" \in h THEN "Payload" ELSE None, 50, -1) :
        h \in Combos }

AnnotatedLists == UNION { [1..n -> AnnotatedKinds] : n \in 0..MaxSats }

FloorValues == {0, 50, 100}

InitAnnotated ==
    /\ \E s \in AnnotatedLists, ty \in { {}, {"Debris"} }, mc \in FloorValues :
          cin = [satellites |-> s, threshold_km |-> 10, minutes |-> 1,
                 step_seconds |-> 20, include_types |-> ty,
                 min_confidence |-> mc, t0 |-> 86390]
    /\ cout = NoRun
    /\ gin = NoArgs
    /\ gout = NoRun
    /\ pin = NoArgs
    /\ pout = NoRun
    /\ vtext = <<>>
    /\ verdict = "none"
    /\ platform = "posix"
    /\ now = 0
    /\ dirs = {}
    /\ files = {}
    /\ pointer = NoPointer
    /\ calls = 0
    /\ call = NoCall
    /\ ret = NoRet
    /\ ptrStale = FALSE

SpecAnnotated == InitAnnotated /\ [][NextCollide]_vars

Words(name) == { name[n] : n \in 1..Len(name) }

\* what the printed name of object i must be: decorated with type and
\* confidence when both are present, bare when both are absent, and in no
\* case showing an annotation that is absent
WellLabelled(name, i) ==
    LET s == cin.satellites[i]
        h == s.has
    IN  /\ name[1] = s.name
        /\ None \notin Words(name)
        /\ {"pred_type", "pred_conf"} \subseteq h
              => name = <<s.name, "[", s.pred_type, ToString(s.pred_conf), "%", "]">>
        /\ h \cap {"pred_type", "pred_conf"} = {} => name = <<s.name>>
        /\ "pred_type" \notin h => name = <<s.name>>
        /\ ("pred_type" \in h /\ "pred_conf" \notin h) => name = <<s.name, "[", s.pred_type, "]">>

\* C21: in every event both names carry the type and confidence that are
\* present, omit what is absent, and never show None
C21_NamesDecoratedOnlyWithWhatIsPresent ==
    Done => \A e \in Alerts : WellLabelled(e.name1, e.i) /\ WellLabelled(e.name2, e.j)

C21_Witness ==
    /\ Done
    /\ \E e \in Alerts, f \in Alerts :
          /\ cin.satellites[e.i].has = {"name", "pred_type", "pred_conf"}
          /\ cin.satellites[e.j].has = {"name", "pred_type"}
          /\ cin.satellites[f.i].has = {"name", "pred_conf"}
          /\ Len(e.name1) = 6 /\ Len(e.name2) = 4 /\ Len(f.name1) = 1

\* the type filter lets object i through
TypeAllowed(i) ==
    \/ cin.include_types = {}
    \/ /\ "pred_type" \in cin.satellites[i].has
       /\ cin.satellites[i].pred_type \in cin.include_types

BelowFloor(i) ==
    /\ cin.min_confidence > 0
    /\ "pred_conf" \in cin.satellites[i].has
    /\ cin.satellites[i].pred_conf < cin.min_confidence

\* C30: an object the type filter lets through is excluded on confidence if
\* and only if the floor is positive and its confidence is below the floor;
\* an object without a confidence counts as 1.0 and passes every floor up to 1
C30_ExcludedIffBelowPositiveFloor ==
    Done => \A i \in Sats :
              TypeAllowed(i) =>
                /\ (i \in Usable <=> ~BelowFloor(i))
                /\ "pred_conf" \notin cin.satellites[i].has => i \in Usable
                /\ cin.min_confidence = 0 => i \in Usable

C30_Witness ==
    /\ Done
    /\ cin.min_confidence = 50
    /\ \E i \in Sats, j \in Sats, k \in Sats :
          /\ TypeAllowed(i) /\ TypeAllowed(j) /\ TypeAllowed(k)
          /\ "pred_conf" \in cin.satellites[i].has
          /\ cin.satellites[i].pred_conf = 50
          /\ i \in Usable
          /\ "pred_conf" \notin cin.satellites[j].has
          /\ j \in Usable
          /\ "pred_conf" \in cin.satellites[k].has
          /\ cin.satellites[k].pred_conf = 0
          /\ k \notin Usable

\* C27: no event comes from tracks of fewer than two samples
C27_NoEventFromShortTrack ==
    Done => (Len(cout.time_steps) < 2 => cout.alerts = <<>>)

----------------------------------------------------------------------------
(* Helpers for the specifications of the other pipeline steps: the parts of *)
(* the state a step does not touch                                          *)

QuietCache ==
    /\ platform = "posix"
    /\ now = 0
    /\ dirs = {}
    /\ files = {}
    /\ pointer = NoPointer
    /\ calls = 0
    /\ call = NoCall
    /\ ret = NoRet
    /\ ptrStale = FALSE

QuietRuns ==
    /\ vtext = <<>>
    /\ verdict = "none"
    /\ cin = NoArgs
    /\ cout = NoRun
    /\ gin = NoArgs
    /\ gout = NoRun

StepUnchanged ==
    /\ UNCHANGED <<pin, vtext, verdict, cin, cout, gin, gout>>
    /\ UNCHANGED <<platform, now, dirs, files, pointer, calls, call, ret, ptrStale>>

----------------------------------------------------------------------------
(* Classification (backend/main.py): classify_and_color and                 *)
(* annotate_satellites_with_ml. A feature value is "num" (a number), "nan", *)
(* "bad" (float() raises on it) or "missing" (no such key); a probability   *)
(* is a percentage. The classifier is the environment's: it answers a label *)
(* or raises, and may or may not accept a vector holding NaN.               *)

FEATURE_KEYS == <<"inc_deg", "ecc", "mm_rev_day", "bstar">>

\* TYPE_COLOR, and TYPE_COLOR.get(pred, TYPE_COLOR["Unknown"])
TYPE_COLOR(pred) ==
    CASE pred = "Payload" -> "green"
      [] pred = "Rocket Body" -> "yellow"
      [] pred = "Debris" -> "red"
      [] OTHER -> "grey"

Unavailable == [raised |-> FALSE, label |-> "Unknown", prob |-> 0, color |-> TYPE_COLOR("Unknown")]

\* float(props[key]) raises for some key
ConversionFails(props) == \E k \in 1..4 : props[k] \in {"bad", "missing"}

HasNaN(props) == \E k \in 1..4 : props[k] = "nan"

\* CLF.predict(vec) raises
PredictRaises(clf, props) ==
    clf.answer = "raise" \/ (HasNaN(props) /\ ~clf.acceptsNaN)

\* CLF.predict_proba(vec).max() raises
ProbaRaises(clf) == clf.proba = "raise"

\* float(CLF.predict_proba(vec).max()) if hasattr(CLF, "predict_proba") else 1.0
Probability(clf) == IF clf.proba = "absent" THEN 100 ELSE clf.conf

classify_and_color_unguarded(clf, props) ==
    IF ~clf.present THEN Unavailable
    ELSE IF ConversionFails(props) THEN Unavailable
    ELSE IF PredictRaises(clf, props) \/ ProbaRaises(clf)
    THEN [raised |-> TRUE, label |-> "", prob |-> 0, color |-> ""]
    ELSE [raised |-> FALSE, label |-> clf.answer, prob |-> Probability(clf),
          color |-> TYPE_COLOR(clf.answer)]

\* classify_and_color
classify_and_color(clf, props) ==
    IF ~clf.present THEN Unavailable
    ELSE IF ConversionFails(props) THEN Unavailable
    ELSE IF PredictRaises(clf, props) \/ ProbaRaises(clf) THEN Unavailable
    ELSE [raised |-> FALSE, label |-> clf.answer, prob |-> Probability(clf),
          color |-> TYPE_COLOR(clf.answer)]

AllNaN == <<"nan", "nan", "nan", "nan">>

\* _features_from_tle_lines: a raise on the inclination, eccentricity or mean
\* motion field gives four NaN; a blank eccentricity field and a drag term
\* that _parse_bstar cannot read give one NaN each
features_from_tle_lines(f) ==
    IF f.inc = "bad" \/ f.ecc = "bad" \/ f.mm = "bad" THEN AllNaN
    ELSE <<"num",
           IF f.ecc = "blank" THEN "nan" ELSE "num",
           "num",
           IF f.bstar = "bad" THEN "nan" ELSE "num">>

\* extract_features_from_sat: the four attributes when the object has them,
\* else the fields of its element lines, else NaN
extract_features_from_sat(sat) ==
    IF sat.direct THEN <<"num", "num", "num", "num">>
    ELSE IF sat.lines THEN features_from_tle_lines(sat.fields)
    ELSE AllNaN

\* annotate_satellites_with_ml: every object gets pred_type, pred_conf and
\* pred_color
annotate_satellites_with_ml(clf, sats) ==
    [n \in 1..Len(sats) |->
        LET r == classify_and_color(clf, extract_features_from_sat(sats[n]))
        IN  [sat |-> sats[n], pred_type |-> r.label, pred_conf |-> r.prob,
             pred_color |-> r.color]]

(* The inputs *)

NoClassifier ==
    [present |-> FALSE, answer |-> "raise", acceptsNaN |-> FALSE, proba |-> "absent", conf |-> 0]

Classifiers ==
    {NoClassifier} \cup
    [present : {TRUE}, answer : {"raise", "Payload", "Debris", "Rocket Body", "Other"},
     acceptsNaN : BOOLEAN, proba : {"absent", "raise", "value"}, conf : {80}]

PropsValues == [1..4 -> {"num", "nan", "bad"}] \cup {<<"num", "num", "num", "missing">>}

FieldValues == [inc : {"ok", "bad"}, ecc : {"ok", "blank", "bad"}, mm : {"ok", "bad"}, bstar : {"ok", "bad"}]

GoodFields == [inc |-> "ok", ecc |-> "ok", mm |-> "ok", bstar |-> "ok"]

Elements ==
    {[direct |-> TRUE, lines |-> TRUE, fields |-> GoodFields],
     [direct |-> FALSE, lines |-> FALSE, fields |-> GoodFields]}
    \cup [direct : {FALSE}, lines : {TRUE}, fields : FieldValues]

ElementLists == UNION { [1..n -> Elements] : n \in 0..2 }

InitClassify ==
    /\ \/ \E clf \in Classifiers, props \in PropsValues :
             pin = [op |-> "classify_and_color", clf |-> clf, props |-> props, satellites |-> <<>>]
       \/ \E clf \in Classifiers, sats \in ElementLists :
             pin = [op |-> "annotate_satellites_with_ml", clf |-> clf,
                    props |-> AllNaN, satellites |-> sats]
    /\ pout = NoRun
    /\ QuietCache
    /\ QuietRuns

classify ==
    /\ pin.op = "classify_and_color"
    /\ pout.status = "none"
    /\ pout' = [status |-> "done", result |-> classify_and_color(pin.clf, pin.props),
                annotated |-> <<>>]
    /\ StepUnchanged

annotate ==
    /\ pin.op = "annotate_satellites_with_ml"
    /\ pout.status = "none"
    /\ pout' = [status |-> "done", result |-> Unavailable,
                annotated |-> annotate_satellites_with_ml(pin.clf, pin.satellites)]
    /\ StepUnchanged

NextClassify == classify \/ annotate

SpecClassify == InitClassify /\ [][NextClassify]_vars

\* the classifier is absent, a feature cannot be converted, or the
\* classifier raises
ClassificationUnavailable ==
    \/ ~pin.clf.present
    \/ \E k \in 1..4 : pin.props[k] \in {"bad", "missing"}
    \/ pin.clf.answer = "raise"
    \/ pin.clf.proba = "raise"
    \/ (\E k \in 1..4 : pin.props[k] = "nan") /\ ~pin.clf.acceptsNaN

\* C22: when classification is unavailable classify_and_color returns
\* "Unknown", confidence 0.0 and the Unknown colour, and raises nothing
C22_UnavailableGivesUnknown ==
    (pout.status = "done" /\ pin.op = "classify_and_color" /\ ClassificationUnavailable)
        => /\ ~pout.result.raised
           /\ pout.result.label = "Unknown"
           /\ pout.result.prob = 0
           /\ pout.result.color = "grey"

C22_Witness ==
    /\ pout.status = "done"
    /\ pin.op = "classify_and_color"
    /\ pin.clf.present
    /\ \A k \in 1..4 : pin.props[k] = "num"
    /\ pin.clf.answer = "raise"
    /\ pout.result.label = "Unknown"

\* the object's features came from its element lines and a numeric field of
\* them could not be parsed
ParseFailed(sat) ==
    /\ ~sat.direct
    /\ sat.lines
    /\ \/ sat.fields.inc = "bad" \/ sat.fields.ecc = "bad"
       \/ sat.fields.mm = "bad" \/ sat.fields.bstar = "bad"

\* C23: after annotation every object whose element fields could not be
\* parsed has the type "Unknown"
C23_ParseFailureGivesUnknown ==
    (pout.status = "done" /\ pin.op = "annotate_satellites_with_ml")
        => \A n \in 1..Len(pout.annotated) :
              ParseFailed(pout.annotated[n].sat) => pout.annotated[n].pred_type = "Unknown"

----------------------------------------------------------------------------
(* Two fetch_tle calls running at once, one per group, each advancing       *)
(* statement by statement; the directory tree, the files and the pointer    *)
(* are shared, the locals of each call are its own                          *)

Procs == {1, 2}

\* the group each call is for
GroupOf(p) == IF p = 1 THEN "active" ELSE "stations"

group_dir_shared(g) == "active"

\* group_dir = TLE_ROOT / group
group_dir(g) == g

Local(pc, cm, latest, text, result) ==
    [pc |-> pc, cm |-> cm, latest |-> latest, text |-> text, ret |-> result]

\* what is in the cache when the two calls start: nothing, or one file per
\* group written at time 0
StartFiles ==
    { { [group |-> g, name |-> Timestamp(0), data |-> WriteText(PayloadLF, "posix"),
         mtime |-> 0, written |-> PayloadLF] : g \in G } : G \in SUBSET Groups }

InitConcurrent ==
    /\ pin \in [Procs -> CacheMinutesValues]
    /\ pout = [status |-> "running",
               procs |-> [p \in Procs |-> Local("ensure_dir", pin[p], -1, <<>>, NoRet)]]
    /\ files \in StartFiles
    /\ dirs = { f.group : f \in files }
    /\ platform = "posix"
    /\ now = 0
    /\ pointer = NoPointer
    /\ calls = 0
    /\ call = NoCall
    /\ ret = NoRet
    /\ ptrStale = FALSE
    /\ QuietRuns

At(p, pc) == pout.procs[p].pc = pc

Move(p, l) == pout' = [pout EXCEPT !.procs[p] = l]

ConcurrentUnchanged ==
    UNCHANGED <<pin, platform, calls, call, ret, vtext, verdict, cin, cout, gin, gout>>

\* line 92: _ensure_dir(group_dir)
step_ensure_dir(p) ==
    LET l == pout.procs[p]
    IN  /\ At(p, "ensure_dir")
        /\ dirs' = dirs \cup {group_dir(GroupOf(p))}
        /\ Move(p, [l EXCEPT !.pc = "list"])
        /\ UNCHANGED <<files, pointer, ptrStale, now>>
        /\ ConcurrentUnchanged

\* lines 95-98: cached = _list_cached(group); is the newest one fresh
step_list(p) ==
    LET l == pout.procs[p]
        d == group_dir(GroupOf(p))
        cached == list_cached(dirs, files, d)
        latest == cached[Len(cached)]
    IN  /\ At(p, "list")
        /\ IF cached # <<>> /\ is_fresh(FileAt(files, d, latest).mtime, now, l.cm)
           THEN Move(p, [l EXCEPT !.pc = "read", !.latest = latest])
           ELSE Move(p, [l EXCEPT !.pc = "get"])
        /\ UNCHANGED <<dirs, files, pointer, ptrStale, now>>
        /\ ConcurrentUnchanged

\* lines 99-100: read the file and return it
step_read(p) ==
    LET l == pout.procs[p]
        d == group_dir(GroupOf(p))
        text == ReadText(FileAt(files, d, l.latest).data)
    IN  /\ At(p, "read")
        /\ Move(p, [l EXCEPT !.pc = "done", !.text = text,
                             !.ret = Ok("cache", d, l.latest, text)])
        /\ UNCHANGED <<dirs, files, pointer, ptrStale, now>>
        /\ ConcurrentUnchanged

\* lines 112-117: the request and the validation of the answer
step_get(p) ==
    LET l == pout.procs[p]
    IN  /\ At(p, "get")
        /\ \E net \in NetOutcomes :
              IF net.kind = "transport_error"
              THEN Move(p, [l EXCEPT !.pc = "done", !.ret = Raised("transport")])
              ELSE IF RaiseForStatus(net.status)
              THEN Move(p, [l EXCEPT !.pc = "done", !.ret = Raised("http")])
              ELSE IF validate_tle_text(net.body) # "ok"
              THEN Move(p, [l EXCEPT !.pc = "done", !.ret = Raised(validate_tle_text(net.body))])
              ELSE Move(p, [l EXCEPT !.pc = "write", !.text = net.body])
        /\ UNCHANGED <<dirs, files, pointer, ptrStale, now>>
        /\ ConcurrentUnchanged

\* lines 119-121: out_path.write_text(text)
step_write(p) ==
    LET l == pout.procs[p]
        d == group_dir(GroupOf(p))
        ts == Timestamp(now)
    IN  /\ At(p, "write")
        /\ files' = { f \in files : ~(f.group = d /\ f.name = ts) }
                    \cup {[group |-> d, name |-> ts, data |-> WriteText(l.text, platform),
                           mtime |-> now, written |-> l.text]}
        /\ Move(p, [l EXCEPT !.pc = "pointer", !.latest = ts])
        /\ UNCHANGED <<dirs, pointer, ptrStale, now>>
        /\ ConcurrentUnchanged

\* lines 124-126: _write_latest_pointer(out_path); return
step_pointer(p) ==
    LET l == pout.procs[p]
        d == group_dir(GroupOf(p))
    IN  /\ At(p, "pointer")
        /\ \E pf \in PointerOutcomes :
              LET w == write_latest_pointer(pointer, d, l.latest, pf)
              IN  /\ pointer' = w.pointer
                  /\ ptrStale' = (pf # "ok")
                  /\ Move(p, [l EXCEPT !.pc = "done",
                                       !.ret = IF w.raised THEN Raised("pointer")
                                               ELSE Ok("network", d, l.latest, l.text)])
        /\ UNCHANGED <<dirs, files, now>>
        /\ ConcurrentUnchanged

\* time passes while the calls run
Tick(t) ==
    /\ t > now
    /\ now' = t
    /\ UNCHANGED <<dirs, files, pointer, ptrStale, pout>>
    /\ ConcurrentUnchanged

NextConcurrent ==
    \/ \E p \in Procs : step_ensure_dir(p)
    \/ \E p \in Procs : step_list(p)
    \/ \E p \in Procs : step_read(p)
    \/ \E p \in Procs : step_get(p)
    \/ \E p \in Procs : step_write(p)
    \/ \E p \in Procs : step_pointer(p)
    \/ \E t \in Times : Tick(t)

SpecConcurrent == InitConcurrent /\ [][NextConcurrent]_vars

\* the call of p has returned a file
Returned(p) == At(p, "done") /\ pout.procs[p].ret.status = "ok"

\* what the call of p returned is an entry of its own group, with the text of
\* that entry; after a network fetch the newest entry of the group is the one
\* written, holding the payload fetched
OwnEntry(p) ==
    LET r == pout.procs[p].ret
        g == GroupOf(p)
        cached == list_cached(dirs, files, g)
    IN  /\ r.group = g
        /\ r.name \in Names(files, g)
        /\ r.origin = "cache" => r.text = ReadText(FileAt(files, g, r.name).data)
        /\ r.origin = "network" =>
              /\ cached[Len(cached)] = r.name
              /\ FileAt(files, g, r.name).written = r.text

\* a step in which the call of p does not move leaves the entries of p's
\* group as they are
OthersLeaveGroupAlone(p) ==
    pout'.procs[p] = pout.procs[p] =>
        GroupFiles(files', GroupOf(p)) = GroupFiles(files, GroupOf(p))

\* C24: calls for different groups, interleaved in any way, do not touch or
\* return each other's entries, and each group's newest entry ends up holding
\* the payload fetched for it
C24_GroupsDoNotConflict ==
    /\ [](\A p \in Procs : Returned(p) => OwnEntry(p))
    /\ [][\A p \in Procs : OthersLeaveGroupAlone(p)]_vars

C24_Witness ==
    /\ \A p \in Procs : Returned(p) /\ pout.procs[p].ret.origin = "network"
    /\ pout.procs[1].ret.name = pout.procs[2].ret.name
    /\ pout.procs[1].ret.text # pout.procs[2].ret.text

----------------------------------------------------------------------------
(* The auxiliary-feed cache (backend/nasa__client.py): DONKI notifications  *)
(* and the NEO feed, each in its own directory under data/cache. The files  *)
(* of a feed are the records of `files` whose group is the feed's directory. *)
(* A JSON document is a one-word sequence; its text on disk is the word in  *)
(* braces.                                                                  *)

DONKI_FRESH_MIN == 60

NEO_FRESH_MIN == 60

DONKI_DIR == "donki"

NEO_DIR == "neo"

\* the instants at which a call can happen: the start, a tick later, exactly
\* one freshness window on, and a tick past it
FeedTimes == {0, 1, DONKI_FRESH_MIN * TicksPerMin, DONKI_FRESH_MIN * TicksPerMin + 1}

Documents == {<<"J1">>, <<"J2">>}

\* json.dump(payload, f)
json_dump(doc) == <<"{">> \o doc \o <<"}">>

IsJson(text) == Len(text) = 3 /\ text[1] = "{" /\ text[3] = "}"

\* json.load(f), r.json()
json_load(text) == <<text[2]>>

NotJson == <<"<", "html", ">">>

FeedOutcomes ==
    {[kind |-> "transport_error", status |-> 0, body |-> <<>>]}
    \cup {[kind |-> "response", status |-> 404, body |-> json_dump(<<"J1">>)]}
    \cup {[kind |-> "response", status |-> 200, body |-> b] :
            b \in {json_dump(d) : d \in Documents} \cup {NotJson}}

nasa_is_fresh_strict(mtime, t, minutes) == t - mtime < minutes * TicksPerMin

\* nasa__client._is_fresh: age <= timedelta(minutes=minutes)
nasa_is_fresh(mtime, t, minutes) == t - mtime <= minutes * TicksPerMin

\* _latest_json_in: the last of the sorted *.json files, or none (-1)
latest_json_in(ds, fs, d) ==
    LET sorted == list_cached(ds, fs, d)
    IN  IF sorted = <<>> THEN -1 ELSE sorted[Len(sorted)]

FeedCall(d, use_cache) == [status |-> "called", feed |-> d, use_cache |-> use_cache]

\* the body shared by fetch_donki_notifications and fetch_neo_today
fetch_feed(d, minutes, use_cache) ==
    /\ calls < MaxCalls
    /\ calls' = calls + 1
    /\ dirs' = dirs \cup {d}
    /\ pout' = FeedCall(d, use_cache)
    /\ UNCHANGED <<platform, now, pointer, ptrStale, pin, vtext, verdict, cin, cout, gin, gout>>
    /\ LET latest == latest_json_in(dirs \cup {d}, files, d)
       IN  IF use_cache /\ latest # -1 /\ nasa_is_fresh(FileAt(files, d, latest).mtime, now, minutes)
           THEN /\ ret' = Ok("cache", d, latest, json_load(FileAt(files, d, latest).data))
                /\ call' = Frame(d, minutes, FALSE, "none", "none")
                /\ UNCHANGED files
           ELSE \E net \in FeedOutcomes :
                  IF net.kind = "transport_error"
                  THEN /\ ret' = Raised("transport")
                       /\ call' = Frame(d, minutes, TRUE, "transport", "none")
                       /\ UNCHANGED files
                  ELSE IF RaiseForStatus(net.status)
                  THEN /\ ret' = Raised("http")
                       /\ call' = Frame(d, minutes, TRUE, "http", "none")
                       /\ UNCHANGED files
                  ELSE IF ~IsJson(net.body)
                  THEN /\ ret' = Raised("json")
                       /\ call' = Frame(d, minutes, TRUE, "invalid", "none")
                       /\ UNCHANGED files
                  ELSE LET data == json_load(net.body)
                           ts == Timestamp(now)
                       IN  /\ files' = { f \in files : ~(f.group = d /\ f.name = ts) }
                                       \cup {[group |-> d, name |-> ts, data |-> json_dump(data),
                                              mtime |-> now, written |-> data]}
                           /\ ret' = Ok("network", d, ts, data)
                           /\ call' = Frame(d, minutes, TRUE, "valid", "none")

fetch_donki_notifications(use_cache) == fetch_feed(DONKI_DIR, DONKI_FRESH_MIN, use_cache)

fetch_neo_today(use_cache) == fetch_feed(NEO_DIR, NEO_FRESH_MIN, use_cache)

Elapse(t) ==
    /\ t > now
    /\ now' = t
    /\ UNCHANGED <<platform, dirs, files, pointer, calls, call, ret, ptrStale>>
    /\ UNCHANGED <<pin, pout, vtext, verdict, cin, cout, gin, gout>>

InitFeeds ==
    /\ pin = NoArgs
    /\ pout = NoRun
    /\ QuietCache
    /\ QuietRuns

NextFeeds ==
    \/ \E uc \in BOOLEAN : fetch_donki_notifications(uc)
    \/ \E uc \in BOOLEAN : fetch_neo_today(uc)
    \/ \E t \in FeedTimes : Elapse(t)

SpecFeeds == InitFeeds /\ [][NextFeeds]_vars

\* the freshness window of the feed of the last call, in ticks
FeedWindow ==
    (IF call.group = DONKI_DIR THEN DONKI_FRESH_MIN ELSE NEO_FRESH_MIN) * TicksPerMin

----------------------------------------------------------------------------
(* The loader (backend/orbit_predictor.py): load_tles reads a file of       *)
(* element sets and builds one object per record it recognises. An object   *)
(* is the record [name, line1, line2] that EarthSatellite was built from.   *)

MaxRecords == 3

\* lines = [line.strip() for line in file if line.strip()], the file opened
\* in text mode
loader_lines(data) ==
    LET raw == SplitLines(ReadText(data))
        kept == SelectNonBlank(raw)
    IN  [n \in 1..Len(kept) |-> Strip(kept[n])]

\* EarthSatellite(line1, line2, name, ts) raises on element lines it cannot
\* read; such lines carry a "?" here
Constructs(line1, line2) ==
    /\ \A n \in 1..Len(line1) : line1[n] # "?"
    /\ \A n \in 1..Len(line2) : line2[n] # "?"

Satellite(name, line1, line2) == [name |-> name, line1 |-> line1, line2 |-> line2]

UNKNOWN == <<"UNKNOWN">>

\* the while loop of load_tles, i counted from 0 as in the code
RECURSIVE scan_records(_, _, _)
scan_records(lines, i, satellites) ==
    IF i > Len(lines) - 2 THEN satellites
    ELSE IF i + 2 < Len(lines) /\ StartsWith(lines[i + 2], MarkerOne)
            /\ StartsWith(lines[i + 3], MarkerTwo)
    THEN scan_records(lines, i + 3,
            IF Constructs(lines[i + 2], lines[i + 3])
            THEN Append(satellites, Satellite(lines[i + 1], lines[i + 2], lines[i + 3]))
            ELSE satellites)
    ELSE IF StartsWith(lines[i + 1], MarkerOne) /\ StartsWith(lines[i + 2], MarkerTwo)
    THEN scan_records(lines, i + 2,
            IF Constructs(lines[i + 1], lines[i + 2])
            THEN Append(satellites, Satellite(UNKNOWN, lines[i + 1], lines[i + 2]))
            ELSE satellites)
    ELSE scan_records(lines, i + 1, satellites)

\* load_tles(file_path): no file gives no objects
load_tles(exists, data) ==
    IF ~exists THEN <<>> ELSE scan_records(loader_lines(data), 0, <<>>)

(* The inputs: a file made of records, well-formed and malformed *)

Triplet(n) == [kind |-> "triplet", name |-> <<n>>,
               lines |-> << <<n>>, <<"1", SP, n>>, <<"2", SP, n>> >>]

BarePair(n) == [kind |-> "pair", name |-> UNKNOWN,
                lines |-> << <<"1", SP, n>>, <<"2", SP, n>> >>]

\* malformed: the second element line is missing, the element lines are
\* swapped, the element lines cannot be read
Truncated(n) == [kind |-> "malformed", name |-> <<n>>, lines |-> << <<n>>, <<"1", SP, n>> >>]

Swapped(n) == [kind |-> "malformed", name |-> <<n>>,
               lines |-> << <<n>>, <<"2", SP, n>>, <<"1", SP, n>> >>]

Unreadable(n) == [kind |-> "malformed", name |-> <<n>>,
                  lines |-> << <<n>>, <<"1", SP, "?">>, <<"2", SP, n>> >>]

RecordKinds ==
    {Triplet("A"), Triplet("B"), BarePair("C"), Truncated("D"), Swapped("E"),
     Unreadable("G")}

RECURSIVE Flatten(_)
Flatten(records) ==
    IF records = <<>> THEN <<>> ELSE Head(records).lines \o Flatten(Tail(records))

FileOf(records, sep) ==
    LET ls == Flatten(records)
    IN  Join(ls, sep)

InitLoad ==
    /\ \E rs \in UNION { [1..n -> RecordKinds] : n \in 0..MaxRecords }, sep \in Terminators,
          ex \in BOOLEAN :
          pin = [records |-> rs, exists |-> ex, data |-> FileOf(rs, sep)]
    /\ pout = NoRun
    /\ QuietCache
    /\ QuietRuns

load ==
    /\ pout.status = "none"
    /\ pout' = [status |-> "loaded", satellites |-> load_tles(pin.exists, pin.data)]
    /\ StepUnchanged

NextLoad == load

SpecLoad == InitLoad /\ [][NextLoad]_vars

\* the objects of the well-formed records of the file, in file order
RECURSIVE Expected(_)
Expected(records) ==
    IF records = <<>> THEN <<>>
    ELSE LET r == Head(records)
         IN  IF r.kind = "malformed" THEN Expected(Tail(records))
             ELSE <<Satellite(r.name, r.lines[Len(r.lines) - 1], r.lines[Len(r.lines)])>>
                  \o Expected(Tail(records))

\* C26: the loader returns one object for each well-formed record of the
\* file, with that record's name ("UNKNOWN" for a bare pair), and none for a
\* malformed record; every object has a line 1 and a line 2
C26_LoadsTheWellFormedRecords ==
    (pout.status = "loaded" /\ pin.exists) =>
      /\ pout.satellites = Expected(pin.records)
      /\ \A n \in 1..Len(pout.satellites) :
            /\ StartsWith(pout.satellites[n].line1, MarkerOne)
            /\ StartsWith(pout.satellites[n].line2, MarkerTwo)

----------------------------------------------------------------------------
(* The merge of main (backend/main.py): the famous and the general objects  *)
(* are put in a dict keyed by name and the dict's values are the merged     *)
(* list. An object is [name, object_id], the id being its catalog number.   *)

Loaded(name, id) == [name |-> name, has |-> {"name"}, object_id |-> id]

\* the keys of the dict in insertion order: the names in order of first
\* occurrence
RECURSIVE keys_in_order(_, _)
keys_in_order(objs, seen) ==
    IF objs = <<>> THEN <<>>
    ELSE LET k == getattr(Head(objs), "name", "UNKNOWN")
         IN  IF k \in seen THEN keys_in_order(Tail(objs), seen)
             ELSE <<k>> \o keys_in_order(Tail(objs), seen \cup {k})

\* the value a dict comprehension leaves under a key: the last one put there
last_with(objs, k) ==
    LET at_k == { n \in 1..Len(objs) : getattr(objs[n], "name", "UNKNOWN") = k }
    IN  objs[CHOOSE n \in at_k : \A q \in at_k : q <= n]

\* sat_by_name = {getattr(s, "name", "UNKNOWN"): s for s in (famous + general)}
\* satellites = list(sat_by_name.values())
merge_by_name(famous, general) ==
    LET objs == famous \o general
        keys == keys_in_order(objs, {})
    IN  [n \in 1..Len(keys) |-> last_with(objs, keys[n])]

\* what the two loaders can return: the station in both lists, and pieces
\* that share a name
CatalogObjects ==
    {Loaded("ISS", 1), Loaded("UNKNOWN", 2), Loaded("UNKNOWN", 3), Loaded("DEB", 4),
     Loaded("DEB", 5)}

ObjectLists ==
    { l \in UNION { [1..n -> CatalogObjects] : n \in 0..MaxSats } :
        \A a, b \in 1..Len(l) : l[a] = l[b] => a = b }

\* load_famous_sats asks for each famous name once
FamousLists ==
    { l \in ObjectLists : \A a, b \in 1..Len(l) : l[a].name = l[b].name => a = b }

InitMerge ==
    /\ \E f \in FamousLists, g \in ObjectLists : Len(f) + Len(g) <= MaxSats
          /\ pin = [famous |-> f, general |-> g]
    /\ pout = NoRun
    /\ QuietCache
    /\ QuietRuns

merge ==
    /\ pout.status = "none"
    /\ pout' = [status |-> "merged", satellites |-> merge_by_name(pin.famous, pin.general)]
    /\ StepUnchanged

NextMerge == merge

SpecMerge == InitMerge /\ [][NextMerge]_vars

\* C29: every loaded object is still in the merged list, whatever its name:
\* each object_id of the famous and general lists is the object_id of a
\* merged object
C29_DistinctObjectsKept ==
    pout.status = "merged" =>
      \A s \in { (pin.famous \o pin.general)[n] : n \in 1..(Len(pin.famous) + Len(pin.general)) } :
        \E n \in 1..Len(pout.satellites) : pout.satellites[n].object_id = s.object_id

----------------------------------------------------------------------------
(* Steps 1 and 2 of main (backend/main.py): fetch the element sets, then    *)
(* load the general objects from data/latest_tle.txt. The program is run    *)
(* again and again; a run whose fetch raised ends there.                    *)

\* main calls fetch_tle() with its defaults: group "active" and the default
\* window, for which the longest window the model's clock covers stands
MainGroup == "active"

MainCacheMinutes == Max(CacheMinutesValues)

PathSep == IF platform = "nt" THEN "\\" ELSE "/"

\* str(target.resolve()): the absolute path of <CACHE_ROOT>/<group>/<ts>.tle
PathText(g, n) ==
    <<PathSep, "data", PathSep, "tle_cache", PathSep, g, PathSep, ToString(n), ".tle">>

\* what data/latest_tle.txt holds: [exists, data]
PointerFile ==
    [exists |-> pointer.kind # "absent",
     data |-> IF pointer.kind = "path" THEN PathText(pointer.group, pointer.name) ELSE <<>>]

\* the previous run of main is over: it loaded, or its fetch raised
RunOver ==
    \/ calls = 0
    \/ ret.status = "error"
    \/ pout.status = "loaded" /\ pout.run = calls

\* line 171: tle_fetcher.fetch_tle()
main_fetch ==
    /\ RunOver
    /\ fetch_tle(MainGroup, MainCacheMinutes)

\* line 181: general = orbit_predictor.load_tles("data/latest_tle.txt")
main_load ==
    /\ ~RunOver
    /\ pout' = [status |-> "loaded", run |-> calls,
                general |-> load_tles(PointerFile.exists, PointerFile.data)]
    /\ UNCHANGED <<platform, now, dirs, files, pointer, calls, call, ret, ptrStale>>
    /\ UNCHANGED <<vtext, verdict, cin, cout, gin, gout, pin>>

NextMain ==
    \/ main_fetch
    \/ main_load
    \/ \E t \in Times : Advance(t)

SpecMain == Init /\ [][NextMain]_vars

\* the objects of a validated payload: its non-blank lines taken three at a
\* time
PayloadObjects(text) == scan_records(loader_lines(text), 0, <<>>)

\* C28: after the fetch of a run succeeded, the loader yields the objects of
\* the payload that fetch_tle returned, on a network fetch and on a cache hit
C28_LoaderYieldsFetchedPayload ==
    (pout.status = "loaded" /\ pout.run = calls /\ ret.status = "ok") =>
        pout.general = PayloadObjects(ret.text)

====
